---- MODULE Spec2Model ----
(***************************************************************************)
(* Model of GLWindow (internal/backends/winit/glwindow.rs): the window     *)
(* lifecycle state machine between Unmapped and Mapped, the rendering      *)
(* notifier slot, GPU context currency, and the event-loop bridge calls.   *)
(*                                                                         *)
(* Every action models one whole method call.  The calls a method makes    *)
(* on its collaborators (OpenGLContext, canvas, event loop, notifier) are  *)
(* written as the sequence of instructions the method's code issues; Run   *)
(* executes the sequence against the collaborators' state and records it   *)
(* in `trace`, each entry stamped with whether the GPU context was current *)
(* when it executed.                                                       *)
(*                                                                         *)
(* Scale factors are in tenths (10 is 1.0).                                *)
(***************************************************************************)
EXTENDS Integers, Sequences, FiniteSets, TLC

\* ---------------------------------------------------------------- bounds
MaxCoord == 1
MaxWindowId == 2
MaxCallback == 2

\* ---------------------------------------------------------------- values
\* Option<T>
None == <<>>
Some(v) == <<v>>

\* euclid::Point2D<i32, PhysicalPx>; (0,0) is Default
Positions == {[x |-> a, y |-> 0 - a] : a \in 0..MaxCoord}
DefaultPosition == [x |-> 0, y |-> 0]

\* euclid::Size2D<u32, PhysicalPx>; (0,0) is Default
Sizes == {[width |-> a, height |-> a] : a \in 0..MaxCoord}
DefaultSize == [width |-> 0, height |-> 0]

\* winit::dpi::LogicalSize<f32>; (0,0) is Default
DefaultExistingSize == [width |-> 0, height |-> 0]
ExistingSizes == {DefaultExistingSize, [width |-> 80, height |-> 60],
                  [width |-> 64, height |-> 48]}

\* the application's rendering notifier callbacks
Callbacks == 1..MaxCallback

\* ids the platform gives to native windows
WindowIds == 1..MaxWindowId

\* (LayoutInfo, LayoutInfo) pairs cached in MappedWindow.constraints, by their
\* minimum sizes; Default is the pair of default LayoutInfo
DefaultConstraints == <<0, 0>>
ConstraintValues == {DefaultConstraints, <<1, 2>>}

\* the root window item the runtime may have bound: title, no_frame, width, height
WindowItems ==
    { None,
      Some([title |-> "App", no_frame |-> TRUE, width |-> 20, height |-> 20]) }

\* component.layout_info(..).preferred_bounded() for the two orientations
PreferredSizes ==
    { [width |-> 20, height |-> 0],
      [width |-> 20, height |-> 20] }

\* what std::env::var("SLINT_SCALE_FACTOR") may give
EnvScaleFactors == { None, Some("abc"), Some("0"), Some("0.5"), Some("1.5") }

\* one value of SLINT_SCALE_FACTOR for each outcome show() can tell apart:
\* no override (unset, unparsable, not positive alike) and an override
ShowEnvScaleFactors == { None, Some("1.5") }

\* str::parse::<f64>, in tenths, on the strings of EnvScaleFactors
ParseF64(s) ==
    CASE s = "1.5" -> Some(15)
      [] s = "0.5" -> Some(5)
      [] s = "0" -> Some(0)
      [] OTHER -> None

\* what the platform decides when a window is created: its id and its scale
\* factor
Platforms == [id : WindowIds, scale_factor : {10, 20}]

\* what runtime_window.scale_factor() may hold when show() reads it: the
\* default 1.0, or what an earlier show() or the application has set
RuntimeScaleFactors == {5, 10, 15, 20}

\* ---------------------------------------------------------------- state
VARIABLES
    map_state,              \* GLWindow.map_state
    rendering_notifier,     \* GLWindow.rendering_notifier
    scale_factor,           \* runtime_window.scale_factor(), in tenths
    window_item_geometry,   \* what set_window_item_geometry last wrote
    registry,               \* event_loop window-id registry
    loop_alive,             \* the event loop still accepts events
    status,                 \* "alive", "panicked" or "dropped"
    lastOp,                 \* the last call: name, state before, inputs, result
    trace,                  \* what the last call did to its collaborators
    last_set,               \* set_position/set_inner_size arguments since Unmapped
    existing_size           \* GLWindow.existing_size, what existing_size() returns

vars == <<map_state, rendering_notifier, scale_factor, window_item_geometry,
          registry, loop_alive, status, lastOp, trace, last_set, existing_size>>

\* GraphicsWindowBackendState
Unmapped(requested_position, requested_size) ==
    [kind |-> "Unmapped",
     requested_position |-> requested_position,
     requested_size |-> requested_size]

Mapped(window) == [kind |-> "Mapped", window |-> window]

\* the handle after Drop
Gone == [kind |-> "Gone"]

is_mapped(ms) == ms.kind = "Mapped"

\* borrow_mapped_window
borrow_mapped_window(ms) == IF is_mapped(ms) THEN Some(ms.window) ELSE None

has_rendering_notifier(notifier) == notifier # None

\* ---------------------------------------------------------------- instructions
I(e) == [e |-> e, cur |-> FALSE]
NotifyI(state, callback) ==
    [e |-> "notify", state |-> state, callback |-> callback, cur |-> FALSE]
WindowI(e, id) == [e |-> e, id |-> id, cur |-> FALSE]
NewContextI(builder) == [e |-> "new_context", builder |-> builder, cur |-> FALSE]
GeometryI(e, value) == [e |-> e, value |-> value, cur |-> FALSE]
SendEventI(event, ok) ==
    [e |-> "send_event", event |-> event, ok |-> ok, cur |-> FALSE]

\* the collaborators' state an instruction sequence runs against
World(ctx, canvas) ==
    [trace |-> <<>>, ctx |-> ctx, saved |-> <<>>, registry |-> registry,
     canvas |-> canvas]

\* no canvas exists
NoCanvas == "NoCanvas"

\* one instruction: OpenGLContext (make_current, make_not_current,
\* with_current_context, new_context, drop), the canvas, the registry
Exec(i, w) ==
    LET e == i.e
        ctx2 ==
            CASE e \in {"new_context", "make_current", "with_current_context_enter"}
                    -> "Current"
              [] e = "make_not_current" -> "NotCurrent"
              [] e = "with_current_context_exit"
                    -> IF Head(w.saved) THEN "Current" ELSE "NotCurrent"
              [] e = "drop_context" -> "None"
              [] OTHER -> w.ctx
        saved2 ==
            CASE e = "with_current_context_enter" -> <<w.ctx = "Current">> \o w.saved
              [] e = "with_current_context_exit" -> Tail(w.saved)
              [] OTHER -> w.saved
        registry2 ==
            CASE e = "register_window" -> w.registry \cup {i.id}
              [] e = "unregister_window" -> w.registry \ {i.id}
              [] OTHER -> w.registry
        canvas2 ==
            CASE e = "create_canvas" -> "Canvas"
              [] e = "drop_canvas" -> "NoCanvas"
              [] OTHER -> w.canvas
    IN [trace |-> Append(w.trace, [i EXCEPT !.cur = (w.ctx = "Current")]),
        ctx |-> ctx2, saved |-> saved2, registry |-> registry2, canvas |-> canvas2]

RECURSIVE Run(_, _)
Run(instrs, w) ==
    IF instrs = <<>> THEN w ELSE Run(Tail(instrs), Exec(Head(instrs), w))

\* ---------------------------------------------------------------- helpers
\* GLWindow::with_current_context
with_current_context(ms, cb) ==
    IF ms.kind = "Mapped"
    THEN <<I("with_current_context_enter")>> \o cb
            \o <<I("with_current_context_exit")>>
    ELSE <<>>

\* GLWindow::invoke_rendering_notifier
invoke_rendering_notifier(notifier, state) ==
    IF notifier # None THEN <<NotifyI(state, notifier[1])>> ELSE <<>>

release_graphics_resources_NoTeardown(ms, notifier) ==
    with_current_context(ms, <<I("canvas.release_graphics_resources")>>)

\* GLWindow::release_graphics_resources
release_graphics_resources(ms, notifier) ==
    with_current_context(ms,
        <<I("canvas.release_graphics_resources")>>
            \o invoke_rendering_notifier(notifier, "RenderingTeardown"))

MappedWindowDrop_NoMakeCurrent(window) ==
    << WindowI("unregister_window", window.opengl_context.window.id),
       I("drop_canvas"),
       I("drop_context") >>

MappedWindowDrop_NoUnregister(window) ==
    <<I("make_current"), I("drop_canvas"), I("drop_context")>>

\* Drop for MappedWindow, then its fields in declaration order
MappedWindowDrop(window) ==
    << I("make_current"),
       WindowI("unregister_window", window.opengl_context.window.id),
       I("drop_canvas"),
       I("drop_context") >>

\* dropping the value map_state held
DropMapState(ms) == IF ms.kind = "Mapped" THEN MappedWindowDrop(ms.window) ELSE <<>>

\* the context and canvas a call starts from
WorldOf(ms) ==
    IF ms.kind = "Mapped"
    THEN World(ms.window.opengl_context.state, ms.window.canvas)
    ELSE World("None", NoCanvas)

\* the mapped window after a call ran w against it
WindowAfter(window, w) ==
    [window EXCEPT !.canvas = w.canvas, !.opengl_context.state = w.ctx]

\* the record of a call: its name, the kind of map_state it started from, what
\* it returned
Op(name, result) == [name |-> name, pre |-> map_state.kind, result |-> result]

Init ==
    /\ map_state = Unmapped(None, None)
    /\ rendering_notifier = None
    /\ scale_factor = 10
    /\ window_item_geometry = None
    /\ registry = {}
    /\ loop_alive = TRUE
    /\ status = "alive"
    /\ lastOp = [name |-> "new", pre |-> "Gone", result |-> "ok"]
    /\ trace = <<>>
    /\ last_set = [position |-> None, size |-> None]
    /\ existing_size = DefaultExistingSize


\* ---------------------------------------------------------------- show
scale_factor_override_EnvFirst(runtime_scale_factor, env_scale) ==
    LET parsed == IF env_scale = None THEN None ELSE ParseF64(env_scale[1])
    IN IF parsed # None /\ parsed[1] > 0 THEN parsed
       ELSE IF runtime_scale_factor > 10 THEN Some(runtime_scale_factor)
       ELSE None

\* scale_factor_override of show(): the runtime's factor when already > 1.0,
\* else SLINT_SCALE_FACTOR when it parses to a float > 0
scale_factor_override(runtime_scale_factor, env_scale) ==
    IF runtime_scale_factor > 10
    THEN Some(runtime_scale_factor)
    ELSE LET parsed == IF env_scale = None THEN None ELSE ParseF64(env_scale[1])
         IN IF parsed # None /\ parsed[1] > 0 THEN parsed ELSE None

\* LogicalSize::to_physical(f), f in tenths
to_physical(s, f) ==
    [unit |-> "Physical", width |-> (s.width * f) \div 10,
     height |-> (s.height * f) \div 10]

sets_window_item_geometry_RequestedToo(env_fullscreen, requested_size, s) ==
    /\ ~env_fullscreen
    /\ s.width > 0 /\ s.height > 0

\* show() sets the root item's geometry from the preferred size
sets_window_item_geometry(env_fullscreen, requested_size, s) ==
    /\ ~env_fullscreen
    /\ requested_size = None
    /\ s.width > 0 /\ s.height > 0

builder_inner_size_RequestedFirst(env_fullscreen, requested_size, s, sfo) ==
    IF requested_size # None
    THEN Some([unit |-> "Physical", width |-> requested_size[1].width,
               height |-> requested_size[1].height])
    ELSE None

\* the inner size show() gives the window builder
builder_inner_size(env_fullscreen, requested_size, s, sfo) ==
    IF env_fullscreen THEN None
    ELSE IF requested_size # None
    THEN Some([unit |-> "Physical", width |-> requested_size[1].width,
               height |-> requested_size[1].height])
    ELSE IF s.width > 0 /\ s.height > 0
    THEN IF sfo # None
         THEN Some(to_physical(s, sfo[1]))
         ELSE Some([unit |-> "Logical", width |-> s.width, height |-> s.height])
    ELSE None

\* the position show() gives the window builder
builder_position(requested_position) ==
    IF requested_position # None
    THEN Some([unit |-> "Physical", x |-> requested_position[1].x,
               y |-> requested_position[1].y])
    ELSE None

\* the winit WindowBuilder show() passes to OpenGLContext::new_context
window_builder(item, env_fullscreen, s, requested_position, requested_size, sfo) ==
    [title |-> IF item # None THEN item[1].title ELSE "Slint Window",
     resizable |-> IF item # None
                   THEN item[1].height <= 0 /\ item[1].width <= 0
                   ELSE TRUE,
     fullscreen |-> env_fullscreen,
     inner_size |-> builder_inner_size(env_fullscreen, requested_size, s, sfo),
     decorations |-> IF item # None THEN ~item[1].no_frame ELSE TRUE,
     position |-> builder_position(requested_position)]

\* the scale factor show() gives the runtime once the window exists
show_scale_factor(sfo, platform_scale_factor) ==
    IF sfo # None THEN sfo[1] ELSE platform_scale_factor

\* what show() works out, past its early return, from what it reads: the
\* buffered geometry, the runtime's scale factor and its environment `in`
ShowResolution(requested_position, requested_size, runtime_scale_factor, in) ==
    LET sfo == scale_factor_override(runtime_scale_factor, in.env_scale)
    IN [builder |-> window_builder(in.item, in.env_fullscreen, in.s,
                                   requested_position, requested_size, sfo),
        sets_geometry |-> sets_window_item_geometry(in.env_fullscreen,
                                                    requested_size, in.s),
        scale_factor |-> show_scale_factor(sfo, in.platform.scale_factor)]

\* the native window the platform creates for a builder; its geometry is
\* the platform's, the handle keeps only the window's identity
NativeWindow(builder, platform) == [id |-> platform.id]

ShowInstrs_LeftCurrent(ms, builder, id, notifier) ==
    <<NewContextI(builder), I("create_canvas")>>
        \o invoke_rendering_notifier(notifier, "RenderingSetup")
        \o DropMapState(ms)
        \o <<WindowI("register_window", id)>>

\* what show() does once past its early return: create the context and the
\* canvas, notify, release currency, replace map_state (dropping the old
\* value), register the window
ShowInstrs(ms, builder, id, notifier) ==
    <<NewContextI(builder), I("create_canvas")>>
        \o invoke_rendering_notifier(notifier, "RenderingSetup")
        \o <<I("make_not_current")>>
        \o DropMapState(ms)
        \o <<WindowI("register_window", id)>>

ShowReturnsEarly_Never(ms) == FALSE

\* the early return of show()
ShowReturnsEarly(ms) == ms.kind = "Mapped"

\* what show() reads from its environment once past the early return: the
\* root window item, SLINT_SCALE_FACTOR, SLINT_FULLSCREEN, the preferred
\* layout size, the platform
ShowInputs ==
    [item : WindowItems, env_scale : ShowEnvScaleFactors, env_fullscreen : BOOLEAN,
     s : PreferredSizes, platform : Platforms]

\* the environments a call of show() can tell apart: none of it is read
\* before the early return
ShowInputsRead(ms) ==
    IF ShowReturnsEarly(ms) THEN {CHOOSE in \in ShowInputs : TRUE} ELSE ShowInputs

show(item, env_scale, env_fullscreen, s, platform) ==
    /\ status = "alive"
    /\ lastOp' = Op("show", "ok")
    /\ IF ShowReturnsEarly(map_state)
       THEN /\ trace' = <<>>
            /\ UNCHANGED <<map_state, rendering_notifier, scale_factor,
                           window_item_geometry, registry, loop_alive, existing_size, status,
                           last_set>>
       ELSE LET requested_position ==
                    IF map_state.kind = "Unmapped"
                    THEN map_state.requested_position ELSE None
                requested_size ==
                    IF map_state.kind = "Unmapped"
                    THEN map_state.requested_size ELSE None
                r == ShowResolution(requested_position, requested_size,
                                    scale_factor,
                                    [item |-> item, env_scale |-> env_scale,
                                     env_fullscreen |-> env_fullscreen,
                                     s |-> s, platform |-> platform])
                builder == r.builder
                native == NativeWindow(builder, platform)
                w == Run(ShowInstrs(map_state, builder, native.id,
                                    rendering_notifier),
                         WorldOf(map_state))
            IN /\ window_item_geometry' =
                    IF r.sets_geometry THEN Some(s) ELSE window_item_geometry
               /\ scale_factor' = r.scale_factor
               /\ map_state' = Mapped([canvas |-> w.canvas,
                                       opengl_context |->
                                            [window |-> native, state |-> w.ctx],
                                       constraints |-> DefaultConstraints])
               /\ registry' = w.registry
               /\ trace' = w.trace
               /\ last_set' = [position |-> None, size |-> None]
               /\ UNCHANGED <<rendering_notifier, loop_alive, existing_size, status>>

\* ---------------------------------------------------------------- hide, drop
HideMapState_Kept(ms) == ms

HideMapState_ZeroGeometry(ms) ==
    Unmapped(Some(DefaultPosition), Some(DefaultSize))

\* the state hide() puts in map_state
HideMapState(ms) == Unmapped(None, None)

\* what hide() does: release, replace map_state (dropping the old value), post
HideInstrs(ms, notifier, alive) ==
    release_graphics_resources(ms, notifier)
        \o DropMapState(ms)
        \o <<SendEventI("WindowHidden", alive)>>

\* send_event(..) to a proxy of a terminated loop is Err(EventLoopClosed)
send_event(alive) == IF alive THEN "Ok" ELSE "Err"

hide ==
    /\ status = "alive"
    /\ LET w == Run(HideInstrs(map_state, rendering_notifier, loop_alive),
                    WorldOf(map_state))
           \* .unwrap() on the result of with_window_target
           result == IF send_event(loop_alive) = "Ok" THEN "ok" ELSE "panic"
       IN /\ lastOp' = Op("hide", result)
          /\ map_state' = HideMapState(map_state)
          /\ registry' = w.registry
          /\ trace' = w.trace
          /\ status' = IF result = "panic" THEN "panicked" ELSE status
          /\ last_set' = IF map_state.kind = "Mapped"
                         THEN [position |-> None, size |-> None]
                         ELSE last_set
          /\ UNCHANGED <<rendering_notifier, scale_factor, window_item_geometry,
                         loop_alive, existing_size>>

DropInstrs_NoRelease(ms, notifier) == DropMapState(ms)

\* Drop for GLWindow, then its fields (map_state holds the MappedWindow)
DropInstrs(ms, notifier) ==
    release_graphics_resources(ms, notifier) \o DropMapState(ms)

drop ==
    /\ status = "alive"
    /\ LET w == Run(DropInstrs(map_state, rendering_notifier), WorldOf(map_state))
       IN /\ lastOp' = Op("drop", "ok")
          /\ map_state' = Gone
          /\ rendering_notifier' = None
          /\ registry' = w.registry
          /\ trace' = w.trace
          /\ status' = "dropped"
          /\ last_set' = [position |-> None, size |-> None]
          /\ UNCHANGED <<scale_factor, window_item_geometry, loop_alive, existing_size>>


\* ---------------------------------------------------------------- draw
DrawInstrs_AfterSwap(notifier) ==
    <<I("make_current"), I("ensure_resized"), I("render_enter")>>
        \o (IF has_rendering_notifier(notifier)
            THEN invoke_rendering_notifier(notifier, "BeforeRendering")
            ELSE <<>>)
        \o <<I("render_exit"), I("swap_buffers")>>
        \o invoke_rendering_notifier(notifier, "AfterRendering")
        \o <<I("make_not_current")>>

\* what draw() does on a mapped window; the renderer calls the before-render
\* callback once, between render_enter and render_exit
DrawInstrs(notifier) ==
    <<I("make_current"), I("ensure_resized"), I("render_enter")>>
        \o (IF has_rendering_notifier(notifier)
            THEN invoke_rendering_notifier(notifier, "BeforeRendering")
            ELSE <<>>)
        \o <<I("render_exit")>>
        \o invoke_rendering_notifier(notifier, "AfterRendering")
        \o <<I("swap_buffers"), I("make_not_current")>>

DrawWindow_Forced(ms) ==
    Some([canvas |-> NoCanvas,
          opengl_context |->
            [window |-> [id |-> 1], state |-> "None"],
          constraints |-> DefaultConstraints])

\* the window draw() works on, None when it returns at once
DrawWindow(ms) == borrow_mapped_window(ms)

draw ==
    /\ status = "alive"
    /\ lastOp' = Op("draw", "ok")
    /\ LET window == DrawWindow(map_state)
       IN IF window = None
          THEN /\ trace' = <<>>
               /\ UNCHANGED map_state
          ELSE LET w == Run(DrawInstrs(rendering_notifier),
                            World(window[1].opengl_context.state, window[1].canvas))
               IN /\ trace' = w.trace
                  /\ map_state' = Mapped(WindowAfter(window[1], w))
    /\ UNCHANGED <<rendering_notifier, scale_factor, window_item_geometry,
                   registry, loop_alive, existing_size, status, last_set>>

\* ---------------------------------------------------------------- notifier
\* Option::replace(callback): the slot afterwards
NotifierAfterReplace(notifier, callback) == Some(callback)

set_rendering_notifier(callback) ==
    /\ status = "alive"
    /\ lastOp' = Op("set_rendering_notifier",
                    IF rendering_notifier # None THEN "AlreadySet" ELSE "ok")
    /\ rendering_notifier' = NotifierAfterReplace(rendering_notifier, callback)
    /\ trace' = <<>>
    /\ UNCHANGED <<map_state, scale_factor, window_item_geometry, registry,
                   loop_alive, existing_size, status, last_set>>

\* ---------------------------------------------------------------- event loop
request_window_properties_update ==
    /\ status = "alive"
    \* .ok() on the result of with_window_target
    /\ lastOp' = Op("request_window_properties_update", "ok")
    /\ trace' = IF map_state.kind = "Mapped"
                THEN <<SendEventI("UpdateWindowProperties", loop_alive)>>
                ELSE <<>>
    /\ UNCHANGED <<map_state, rendering_notifier, scale_factor,
                   window_item_geometry, registry, loop_alive, existing_size, status, last_set>>

\* the event loop terminates
EventLoopExit ==
    /\ status = "alive"
    /\ loop_alive
    /\ loop_alive' = FALSE
    /\ lastOp' = Op("event_loop_exit", "ok")
    /\ trace' = <<>>
    /\ UNCHANGED <<map_state, rendering_notifier, scale_factor,
                   window_item_geometry, registry, status, last_set,
                   existing_size>>

\* ---------------------------------------------------------------- components
\* what unregister_component() does
UnregisterInstrs(ms) ==
    IF ms.kind = "Mapped"
    THEN with_current_context(ms, <<I("canvas.component_destroyed")>>)
    ELSE <<>>

unregister_component ==
    /\ status = "alive"
    /\ lastOp' = Op("unregister_component", "ok")
    /\ LET w == Run(UnregisterInstrs(map_state), WorldOf(map_state))
       IN /\ trace' = w.trace
          /\ map_state' = IF map_state.kind = "Mapped"
                          THEN Mapped(WindowAfter(map_state.window, w))
                          ELSE map_state
    /\ UNCHANGED <<rendering_notifier, scale_factor, window_item_geometry,
                   registry, loop_alive, existing_size, status, last_set>>

\* ---------------------------------------------------------------- geometry
\* position(): the buffered request or Default while Unmapped; while Mapped
\* what the native window answers to outer_position(), Some(p) for Ok(p) and
\* None for Err
position(ms, outer_position) ==
    IF ms.kind = "Unmapped"
    THEN IF ms.requested_position # None
         THEN ms.requested_position[1] ELSE DefaultPosition
    ELSE IF outer_position # None THEN outer_position[1] ELSE DefaultPosition

\* inner_size(): the buffered request or Default while Unmapped; while Mapped
\* what the native window answers to inner_size()
inner_size(ms, window_inner_size) ==
    IF ms.kind = "Unmapped"
    THEN IF ms.requested_size # None THEN ms.requested_size[1] ELSE DefaultSize
    ELSE window_inner_size

\* set_position on an Unmapped handle
SetPositionUnmapped(ms, pos) ==
    [ms EXCEPT !.requested_position = Some(pos)]

set_position(pos) ==
    /\ status = "alive"
    /\ lastOp' = Op("set_position", "ok")
    /\ IF map_state.kind = "Unmapped"
       THEN /\ map_state' = SetPositionUnmapped(map_state, pos)
            /\ last_set' = [last_set EXCEPT !.position = Some(pos)]
            /\ trace' = <<>>
       ELSE /\ trace' = <<GeometryI("window.set_outer_position", pos)>>
            /\ UNCHANGED <<map_state, last_set>>
    /\ UNCHANGED <<rendering_notifier, scale_factor, window_item_geometry,
                   registry, loop_alive, existing_size, status>>

\* set_inner_size on an Unmapped handle
SetInnerSizeUnmapped(ms, size) == [ms EXCEPT !.requested_size = Some(size)]

set_inner_size(size) ==
    /\ status = "alive"
    /\ lastOp' = Op("set_inner_size", "ok")
    /\ IF map_state.kind = "Unmapped"
       THEN /\ map_state' = SetInnerSizeUnmapped(map_state, size)
            /\ last_set' = [last_set EXCEPT !.size = Some(size)]
            /\ trace' = <<>>
       ELSE /\ trace' = <<GeometryI("window.set_inner_size", size)>>
            /\ UNCHANGED <<map_state, last_set>>
    /\ UNCHANGED <<rendering_notifier, scale_factor, window_item_geometry,
                   registry, loop_alive, existing_size, status>>

\* constraints(): the mapped window's cell, or Default
constraints(ms) ==
    IF borrow_mapped_window(ms) # None
    THEN borrow_mapped_window(ms)[1].constraints
    ELSE DefaultConstraints

set_constraints_Discarded(c) ==
    /\ status = "alive"
    /\ lastOp' = [name |-> "set_constraints", pre |-> map_state.kind,
                  result |-> "ok", constraints |-> c]
    /\ trace' = <<>>
    /\ UNCHANGED <<map_state, rendering_notifier, scale_factor,
                   window_item_geometry, registry, loop_alive, existing_size,
                   status, last_set>>

set_constraints(c) ==
    /\ status = "alive"
    /\ lastOp' = [name |-> "set_constraints", pre |-> map_state.kind,
                  result |-> "ok", constraints |-> c]
    /\ trace' = <<>>
    /\ map_state' = IF borrow_mapped_window(map_state) # None
                    THEN [map_state EXCEPT !.window.constraints = c]
                    ELSE map_state
    /\ UNCHANGED <<rendering_notifier, scale_factor, window_item_geometry,
                   registry, loop_alive, existing_size, status, last_set>>

\* ---------------------------------------------------------------- specification
Next ==
    \/ \E in \in ShowInputsRead(map_state) :
            show(in.item, in.env_scale, in.env_fullscreen, in.s, in.platform)
    \/ hide
    \/ drop
    \/ draw
    \/ \E callback \in Callbacks : set_rendering_notifier(callback)
    \/ request_window_properties_update
    \/ EventLoopExit
    \/ unregister_component
    \/ \E pos \in Positions : set_position(pos)
    \/ \E size \in Sizes : set_inner_size(size)
    \/ \E c \in ConstraintValues : set_constraints(c)

Spec == Init /\ [][Next]_vars

\* ---------------------------------------------------------------- existing size
existing_size_set_Kept(old, size) == old

\* Cell::set on existing_size: the value the cell holds afterwards
existing_size_set(old, size) == size

set_existing_size(size) ==
    /\ status = "alive"
    /\ lastOp' = [name |-> "set_existing_size", pre |-> map_state.kind,
                  result |-> "ok", size |-> size]
    /\ existing_size' = existing_size_set(existing_size, size)
    /\ trace' = <<>>
    /\ UNCHANGED <<map_state, rendering_notifier, scale_factor,
                   window_item_geometry, registry, loop_alive, status, last_set>>

\* one environment for show(): nothing show() reads bears on existing_size
ShowInputsOne == {CHOOSE in \in ShowInputs : in.item # None}

\* the handle's methods with set_existing_size; Spec leaves the hint at its
\* default
NextExisting ==
    \/ \E in \in ShowInputsOne :
            show(in.item, in.env_scale, in.env_fullscreen, in.s, in.platform)
    \/ hide
    \/ drop
    \/ draw
    \/ \E callback \in Callbacks : set_rendering_notifier(callback)
    \/ request_window_properties_update
    \/ EventLoopExit
    \/ unregister_component
    \/ \E pos \in Positions : set_position(pos)
    \/ \E size \in Sizes : set_inner_size(size)
    \/ \E c \in ConstraintValues : set_constraints(c)
    \/ \E size \in ExistingSizes : set_existing_size(size)

SpecExisting == Init /\ [][NextExisting]_vars

\* ---------------------------------------------------------------- set_icon
\* u8 values an image's bytes take here
PixelChannels == {0, 10, 20, 30, 128, 200, 255}

\* `as u8`
as_u8(v) == v % 256

\* slice::chunks(n) of a buffer of whole pixels
chunks(bytes, n) ==
    [i \in 1..(Len(bytes) \div n) |-> SubSeq(bytes, (i - 1) * n + 1, i * n)]

\* flat_map(..).collect(): the pixels' bytes one after the other
RECURSIVE collect(_)
collect(pixels) ==
    IF pixels = <<>> THEN <<>> ELSE Head(pixels) \o collect(Tail(pixels))

\* the RGB8 closure
rgb8_pixel(rgb) == <<rgb[1], rgb[2], rgb[3], 255>>

premultiplied_component_Rounded(component, alpha) ==
    as_u8((component * alpha + 127) \div 255)

\* (*component as u32 * alpha / 255) as u8, alpha a u32: the product of two
\* u8 values is below 2^32, the u32 arithmetic is exact
premultiplied_component(component, alpha) ==
    as_u8((component * alpha) \div 255)

\* the RGBA8Premultiplied closure
premultiplied_pixel(rgba) ==
    LET alpha == rgba[4]
    IN [k \in 1..3 |-> premultiplied_component(rgba[k], alpha)]
        \o <<as_u8(alpha)>>

\* rgba_pixels of set_icon
rgba_pixels(pixel_buffer) ==
    CASE pixel_buffer.format = "RGB8" ->
            LET c == chunks(pixel_buffer.bytes, 3)
            IN collect([i \in DOMAIN c |-> rgb8_pixel(c[i])])
      [] pixel_buffer.format = "RGBA8" -> pixel_buffer.bytes
      [] pixel_buffer.format = "RGBA8Premultiplied" ->
            LET c == chunks(pixel_buffer.bytes, 4)
            IN collect([i \in DOMAIN c |-> premultiplied_pixel(c[i])])

\* SharedImageBuffer values: every one-pixel image over PixelChannels and
\* some two-pixel ones
Rgb ==
    {<<a, b, c>> : a \in PixelChannels, b \in PixelChannels, c \in PixelChannels}
Rgba == {px \o <<a>> : px \in Rgb, a \in PixelChannels}
TwoPixels(one) == {px \o qx : px \in one, qx \in one}
PixelBuffers ==
    {[format |-> "RGB8", bytes |-> b, width |-> Len(b) \div 3, height |-> 1] :
        b \in Rgb \cup TwoPixels({<<10, 20, 30>>, <<255, 0, 128>>})}
    \cup
    {[format |-> f, bytes |-> b, width |-> Len(b) \div 4, height |-> 1] :
        f \in {"RGBA8", "RGBA8Premultiplied"},
        b \in Rgba \cup TwoPixels({<<200, 0, 0, 128>>, <<10, 20, 30, 255>>})}

\* ImageInner
Images ==
    {[kind |-> "None"]}
        \cup {[kind |-> "EmbeddedImage", buffer |-> b] : b \in PixelBuffers}

set_icon(icon) ==
    /\ status = "alive"
    /\ LET rgba == IF icon.kind = "EmbeddedImage"
                   THEN Some(rgba_pixels(icon.buffer)) ELSE None
           window == borrow_mapped_window(map_state)
       IN /\ lastOp' = [name |-> "set_icon", pre |-> map_state.kind,
                        result |-> "ok", icon |-> icon, rgba_pixels |-> rgba]
          /\ trace' = IF rgba # None /\ window # None
                      THEN <<[e |-> "window.set_window_icon", cur |-> FALSE,
                              rgba |-> rgba[1], width |-> icon.buffer.width,
                              height |-> icon.buffer.height]>>
                      ELSE <<>>
    /\ UNCHANGED <<map_state, rendering_notifier, scale_factor,
                   window_item_geometry, registry, loop_alive, existing_size,
                   status, last_set>>

\* the handle as constructed or showing window 1, about to be given an icon
InitIcon ==
    /\ \/ map_state = Unmapped(None, None) /\ registry = {}
       \/ /\ map_state =
                Mapped([canvas |-> "Canvas",
                        opengl_context |->
                            [window |-> [id |-> 1], state |-> "NotCurrent"],
                        constraints |-> DefaultConstraints])
          /\ registry = {1}
    /\ rendering_notifier = None
    /\ scale_factor = 10
    /\ window_item_geometry = None
    /\ loop_alive = TRUE
    /\ status = "alive"
    /\ lastOp \in {[name |-> "icon", icon |-> icon] : icon \in Images}
    /\ trace = <<>>
    /\ last_set = [position |-> None, size |-> None]
    /\ existing_size = DefaultExistingSize

NextIcon == lastOp.name = "icon" /\ set_icon(lastOp.icon)

SpecIcon == InitIcon /\ [][NextIcon]_vars

\* ---------------------------------------------------------------- re-entrancy
\* A call the notifier callback makes on the handle while the handle's own
\* operation is delivering the notification.  map_state and
\* rendering_notifier are RefCells: what the running operation has borrowed
\* decides whether the callback's call gets its own borrows or panics.
NotifyPhases ==
    {"RenderingSetup", "BeforeRendering", "AfterRendering", "RenderingTeardown"}

HeldBorrows_DrawReleased(phase) ==
    [rendering_notifier |-> "Mut",
     map_state |-> IF phase = "RenderingTeardown" THEN "Shared" ELSE "Free"]

\* the borrows the running operation holds while the callback runs:
\* invoke_rendering_notifier holds rendering_notifier.borrow_mut(); draw()
\* holds the Ref of borrow_mapped_window(), release_graphics_resources the
\* borrow of with_current_context; show() has dropped its borrow
HeldBorrows(phase) ==
    [rendering_notifier |-> "Mut",
     map_state |-> IF phase = "RenderingSetup" THEN "Free" ELSE "Shared"]

\* the calls a callback may make
ReentrantCalls ==
    {[name |-> n] : n \in {"hide", "show", "position", "inner_size",
                           "request_redraw", "constraints"}}
        \cup {[name |-> "set_rendering_notifier", callback |-> c] : c \in Callbacks}
        \cup {[name |-> "set_position", pos |-> a] : a \in Positions}
        \cup {[name |-> "set_inner_size", size |-> z] : z \in Sizes}

Access(cell, mode) == [cell |-> cell, mode |-> mode]

\* the borrows a call takes, in the order its code takes them
Accesses(call, ms) ==
    CASE call.name = "set_rendering_notifier" ->
            <<Access("rendering_notifier", "Mut")>>
      [] call.name = "hide" ->
            IF ms.kind = "Mapped"
            THEN \* with_current_context, invoke_rendering_notifier, replace
                 <<Access("map_state", "Shared"),
                   Access("rendering_notifier", "Mut"),
                   Access("map_state", "Mut")>>
            ELSE <<Access("map_state", "Shared"), Access("map_state", "Mut")>>
      [] call.name = "show" ->
            IF ShowReturnsEarly(ms)
            THEN <<Access("map_state", "Shared")>>
            ELSE \* the match, invoke_rendering_notifier, replace
                 <<Access("map_state", "Shared"),
                   Access("rendering_notifier", "Mut"),
                   Access("map_state", "Mut")>>
      [] call.name \in {"set_position", "set_inner_size"} ->
            <<Access("map_state", "Mut")>>
      [] call.name \in {"position", "inner_size", "request_redraw"} ->
            <<Access("map_state", "Shared")>>
      [] call.name = "constraints" ->
            \* is_mapped, then Ref::map(self.map_state.borrow(), ..)
            IF ms.kind = "Mapped"
            THEN <<Access("map_state", "Shared"), Access("map_state", "Shared")>>
            ELSE <<Access("map_state", "Shared")>>

\* RefCell::borrow / borrow_mut against what is already borrowed
Permitted(held, access) ==
    IF access.mode = "Mut"
    THEN held[access.cell] = "Free"
    ELSE held[access.cell] # "Mut"

\* how the call ends: "ok", or "panic" on its first refused borrow
CallOutcome(call, ms, held) ==
    LET accesses == Accesses(call, ms)
    IN IF \A i \in DOMAIN accesses : Permitted(held, accesses[i])
       THEN "ok" ELSE "panic"

\* map_state after the call has completed
MapStateAfterCall(call, ms) ==
    CASE call.name = "hide" -> HideMapState(ms)
      [] call.name = "set_position" /\ ms.kind = "Unmapped" ->
            SetPositionUnmapped(ms, call.pos)
      [] call.name = "set_inner_size" /\ ms.kind = "Unmapped" ->
            SetInnerSizeUnmapped(ms, call.size)
      [] OTHER -> ms

\* the handle in the middle of an operation that is notifying its callback:
\* still Unmapped during the RenderingSetup of show(), Mapped with the
\* context current in the other phases
InitReentrant ==
    /\ rendering_notifier \in {Some(c) : c \in Callbacks}
    /\ scale_factor = 10
    /\ window_item_geometry = None
    /\ loop_alive = TRUE
    /\ status = "alive"
    /\ trace = <<>>
    /\ existing_size = DefaultExistingSize
    /\ \E phase \in NotifyPhases, call \in ReentrantCalls :
        /\ lastOp = [name |-> "notify", phase |-> phase, call |-> call]
        /\ IF phase = "RenderingSetup"
           THEN /\ \E p \in {None} \cup {Some(a) : a \in Positions},
                      z \in {None} \cup {Some(a) : a \in Sizes} :
                        /\ map_state = Unmapped(p, z)
                        /\ last_set = [position |-> p, size |-> z]
                /\ registry = {}
           ELSE /\ \E id \in WindowIds, c \in ConstraintValues :
                        /\ map_state =
                            Mapped([canvas |-> "Canvas",
                                    opengl_context |->
                                        [window |-> [id |-> id],
                                         state |-> "Current"],
                                    constraints |-> c])
                        /\ registry = {id}
                /\ last_set = [position |-> None, size |-> None]

\* the callback makes its call
Reenter ==
    /\ lastOp.name = "notify"
    /\ LET call == lastOp.call
           result == CallOutcome(call, map_state, HeldBorrows(lastOp.phase))
       IN /\ lastOp' = [name |-> "reentered", phase |-> lastOp.phase,
                        call |-> call, result |-> result]
          /\ map_state' = IF result = "ok"
                          THEN MapStateAfterCall(call, map_state)
                          ELSE map_state
          /\ status' = IF result = "panic" THEN "panicked" ELSE status
    /\ UNCHANGED <<rendering_notifier, scale_factor, window_item_geometry,
                   registry, loop_alive, existing_size, trace, last_set>>

NextReentrant == Reenter

SpecReentrant == InitReentrant /\ [][NextReentrant]_vars

\* ---------------------------------------------------------------- show, resolved
\* The builder, the geometry decision and the scale factor of show() as a
\* function of everything show() reads.  lastOp holds the inputs, then the
\* inputs with what show() resolved from them; the handle stays as constructed.
ResolveInputs ==
    [requested_position : {None} \cup {Some(p) : p \in Positions},
     requested_size : {None} \cup {Some(z) : z \in Sizes},
     runtime_scale_factor : RuntimeScaleFactors,
     env : [item : WindowItems, env_scale : EnvScaleFactors,
            env_fullscreen : BOOLEAN, s : PreferredSizes, platform : Platforms]]

InitResolve ==
    /\ map_state = Unmapped(None, None)
    /\ rendering_notifier = None
    /\ scale_factor = 10
    /\ window_item_geometry = None
    /\ registry = {}
    /\ loop_alive = TRUE
    /\ status = "alive"
    /\ lastOp \in {[name |-> "show_reads", in |-> in] : in \in ResolveInputs}
    /\ trace = <<>>
    /\ last_set = [position |-> None, size |-> None]
    /\ existing_size = DefaultExistingSize

ResolveShow ==
    /\ lastOp.name = "show_reads"
    /\ lastOp' = [name |-> "show_resolved", in |-> lastOp.in,
                  out |-> ShowResolution(lastOp.in.requested_position,
                                         lastOp.in.requested_size,
                                         lastOp.in.runtime_scale_factor,
                                         lastOp.in.env)]
    /\ UNCHANGED <<map_state, rendering_notifier, scale_factor,
                   window_item_geometry, registry, loop_alive, existing_size, status, trace,
                   last_set>>

NextResolve == ResolveShow

SpecResolve == InitResolve /\ [][NextResolve]_vars


\* ---------------------------------------------------------------- queries
\* how many entries of a trace satisfy a test on the instruction
Count(tr, e) == Cardinality({i \in DOMAIN tr : tr[i].e = e})

CountNotify(tr, state) ==
    Cardinality({i \in DOMAIN tr : tr[i].e = "notify" /\ tr[i].state = state})

Notified(tr) == {i \in DOMAIN tr : tr[i].e = "notify"}

\* the steps of a trace by name, a notification by the state it announces
Steps(tr) ==
    [i \in DOMAIN tr |-> IF tr[i].e = "notify" THEN tr[i].state ELSE tr[i].e]

\* every step a of the trace comes before every step b
Precedes(tr, a, b) ==
    \A i, j \in DOMAIN tr : (tr[i].e = a /\ tr[j].e = b) => i < j

\* the builder a call of show() handed to new_context
BuilderOf(tr) == tr[1].builder

\* the steps that touch GPU state
GpuSteps ==
    {"render_enter", "canvas.release_graphics_resources",
     "canvas.component_destroyed", "notify", "drop_canvas"}

\* ---------------------------------------------------------------- claims

\* C1: over any sequence of calls the map state is Mapped after every show()
\* and Unmapped after every hide(), and its kind changes only on a show()
\* issued while Unmapped or a hide() issued while Mapped (or when the handle
\* is dropped and no state is left).
C1_StrictAlternation ==
    [][ /\ (lastOp'.name = "show" => map_state'.kind = "Mapped")
        /\ (lastOp'.name = "hide" => map_state'.kind = "Unmapped")
        /\ (map_state'.kind # map_state.kind =>
                \/ lastOp'.name = "show" /\ map_state.kind = "Unmapped"
                \/ lastOp'.name = "hide" /\ map_state.kind = "Mapped"
                \/ lastOp'.name = "drop") ]_vars

\* a hide() has unmapped a window that a show() had mapped
C1_Witness ==
    /\ lastOp.name = "hide"
    /\ lastOp.pre = "Mapped"
    /\ map_state.kind = "Unmapped"

\* C2: a set_rendering_notifier call made while a notifier is registered
\* fails with AlreadySet and leaves the stored notifier as it was.
C2_SecondRegistrationRejected ==
    [][ (lastOp'.name = "set_rendering_notifier" /\ rendering_notifier # None)
            => /\ lastOp'.result = "AlreadySet"
               /\ rendering_notifier' = rendering_notifier ]_vars

\* C3: hide() on an Unmapped handle changes nothing: the buffered position
\* and size are kept, no notification is fired, no WindowHidden is posted.
C3_HideUnmappedNoOp ==
    [][ (lastOp'.name = "hide" /\ map_state.kind = "Unmapped")
            => /\ map_state' = map_state
               /\ trace' = <<>> ]_vars

\* C4: show() on a Mapped handle does nothing: no window or context is
\* created, no notification fired, nothing registered, and the mapped
\* window, the runtime scale factor and the root item geometry are unchanged.
C4_ShowMappedNoOp ==
    [][ (lastOp'.name = "show" /\ map_state.kind = "Mapped")
            => /\ trace' = <<>>
               /\ map_state' = map_state
               /\ scale_factor' = scale_factor
               /\ window_item_geometry' = window_item_geometry
               /\ registry' = registry
               /\ rendering_notifier' = rendering_notifier ]_vars

\* show() was called on a mapped window whose constraints had been set
C4_Witness ==
    /\ lastOp.name = "show"
    /\ lastOp.pre = "Mapped"
    /\ map_state.kind = "Mapped"
    /\ map_state.window.constraints # DefaultConstraints
    /\ rendering_notifier # None

\* C5: draw() on an Unmapped handle calls neither the renderer nor the
\* notifier, swaps no buffers, and leaves the handle as it was.
C5_DrawUnmappedNoOp ==
    [][ (lastOp'.name = "draw" /\ map_state.kind = "Unmapped")
            => /\ trace' = <<>>
               /\ UNCHANGED <<map_state, rendering_notifier, scale_factor,
                              window_item_geometry, registry, loop_alive, existing_size,
                              status, last_set>> ]_vars

\* draw() was called on an unmapped handle that has a notifier
C5_Witness ==
    /\ lastOp.name = "draw"
    /\ lastOp.pre = "Unmapped"
    /\ rendering_notifier # None

\* C6: dropping a Mapped handle releases the canvas's GPU resources exactly
\* once, notifies RenderingTeardown exactly once when a notifier is
\* registered (never otherwise), and leaves no registry entry for the window;
\* dropping an Unmapped handle releases and notifies nothing and completes.
C6_DropReleasesOnce ==
    [][ lastOp'.name = "drop"
            => /\ status' = "dropped"
               /\ IF map_state.kind = "Mapped"
                  THEN /\ Count(trace', "canvas.release_graphics_resources") = 1
                       /\ CountNotify(trace', "RenderingTeardown") =
                            (IF rendering_notifier # None THEN 1 ELSE 0)
                       /\ Cardinality(Notified(trace')) =
                            (IF rendering_notifier # None THEN 1 ELSE 0)
                       /\ map_state.window.opengl_context.window.id \in registry
                       /\ registry' = {}
                  ELSE /\ Count(trace', "canvas.release_graphics_resources") = 0
                       /\ Notified(trace') = {}
                       /\ registry' = registry ]_vars

\* a mapped handle with a notifier was dropped
C6_Witness ==
    /\ lastOp.name = "drop"
    /\ lastOp.pre = "Mapped"
    /\ CountNotify(trace, "RenderingTeardown") = 1

\* C7: hide() and request_window_properties_update() return normally when
\* the event loop has terminated.
C7_PostFailureSwallowed ==
    (lastOp.name \in {"hide", "request_window_properties_update"} /\ ~loop_alive)
        => lastOp.result = "ok"

\* C8: the render call, the canvas's release_graphics_resources and
\* component_destroyed, every notifier invocation and the destruction of a
\* mapped window's canvas execute with the window's GPU context current.
C8_GpuStepsUnderCurrentContext ==
    \A i \in DOMAIN trace : trace[i].e \in GpuSteps => trace[i].cur

\* a hide() released, notified and destroyed the canvas of a mapped window
C8_Witness ==
    /\ lastOp.name = "hide"
    /\ Count(trace, "drop_canvas") = 1
    /\ Count(trace, "canvas.release_graphics_resources") = 1
    /\ CountNotify(trace, "RenderingTeardown") = 1

\* C9: the context is not current when a mapping show() returns nor when a
\* draw() on a Mapped handle returns, and in draw() currency is released
\* after the buffer swap.
C9_ContextNotLeftCurrent ==
    /\ (lastOp.name = "show" /\ lastOp.pre = "Unmapped")
            => /\ map_state.kind = "Mapped"
               /\ map_state.window.opengl_context.state = "NotCurrent"
    /\ (lastOp.name = "draw" /\ lastOp.pre = "Mapped")
            => /\ map_state.window.opengl_context.state = "NotCurrent"
               /\ Count(trace, "swap_buffers") = 1
               /\ \A i, j \in DOMAIN trace :
                    (trace[i].e = "swap_buffers" /\ trace[j].e = "make_not_current")
                        => i < j
               /\ trace[Len(trace)].e = "make_not_current"

\* a draw() on a mapped window swapped buffers
C9_Witness ==
    /\ lastOp.name = "draw"
    /\ lastOp.pre = "Mapped"
    /\ Count(trace, "swap_buffers") = 1

\* C10: with the fullscreen flag unset, show() on an Unmapped handle creates
\* the window with the position and the size last set while Unmapped, as
\* physical values, and passes no position when none was set.
C10_BufferedGeometryApplied ==
    [][ (lastOp'.name = "show" /\ map_state.kind = "Unmapped"
            /\ ~BuilderOf(trace').fullscreen)
            => /\ BuilderOf(trace').position = builder_position(last_set.position)
               /\ (last_set.size # None =>
                    BuilderOf(trace').inner_size =
                        Some([unit |-> "Physical",
                              width |-> last_set.size[1].width,
                              height |-> last_set.size[1].height])) ]_vars

\* C11: with SLINT_FULLSCREEN set and a size buffered while Unmapped, show()
\* creates the window borderless-fullscreen and gives the builder no inner
\* size (neither the buffered one nor the preferred one), does not set the
\* root item's geometry, and still gives the builder the buffered position.
C11_FullscreenOverridesSize ==
    (lastOp.name = "show_resolved" /\ lastOp.in.env.env_fullscreen
        /\ lastOp.in.requested_size # None)
        => /\ lastOp.out.builder.fullscreen
           /\ lastOp.out.builder.inner_size = None
           /\ ~lastOp.out.sets_geometry
           /\ \A p \in Positions :
                lastOp.in.requested_position = Some(p)
                    => lastOp.out.builder.position =
                         Some([unit |-> "Physical", x |-> p.x, y |-> p.y])

\* show() resolved a fullscreen window with a size and a position buffered
C11_Witness ==
    /\ lastOp.name = "show_resolved"
    /\ lastOp.in.env.env_fullscreen
    /\ lastOp.in.requested_size = Some([width |-> 1, height |-> 1])
    /\ lastOp.in.requested_position = Some([x |-> 1, y |-> -1])
    /\ lastOp.in.env.s = [width |-> 20, height |-> 20]
    /\ lastOp.out.builder.position # None

\* C12: the scale factor show() gives the runtime is the runtime's own when
\* that is already above 1.0, whatever SLINT_SCALE_FACTOR says; else the
\* value of SLINT_SCALE_FACTOR when it parses to a float above 0; else
\* (unset, unparsable, not positive) the platform's factor for the window.
C12_ScaleFactorPrecedence ==
    lastOp.name = "show_resolved"
        => LET runtime == lastOp.in.runtime_scale_factor
               env_scale == lastOp.in.env.env_scale
               platform == lastOp.in.env.platform.scale_factor
               applied == lastOp.out.scale_factor
           IN /\ runtime > 10 => applied = runtime
              /\ (runtime <= 10 /\ env_scale = Some("1.5")) => applied = 15
              /\ (runtime <= 10 /\ env_scale = Some("0.5")) => applied = 5
              /\ (runtime <= 10 /\ env_scale \in {None, Some("abc"), Some("0")})
                    => applied = platform

\* show() kept a runtime factor of 2.0 against SLINT_SCALE_FACTOR=1.5
C12_Witness ==
    /\ lastOp.name = "show_resolved"
    /\ lastOp.in.runtime_scale_factor = 20
    /\ lastOp.in.env.env_scale = Some("1.5")
    /\ lastOp.in.env.platform.scale_factor = 10
    /\ lastOp.out.scale_factor = 20

\* C13: while the handle is Unmapped, position() and inner_size() return the
\* argument of the latest set_position()/set_inner_size() since the handle
\* became Unmapped, or the zero default when there was none, whatever a
\* native window would answer; and set_position() on an Unmapped handle
\* leaves the buffered size as it was, set_inner_size() the buffered position.
C13_UnmappedGeometryBuffered ==
    [][ /\ map_state'.kind = "Unmapped" =>
            /\ \A outer_position \in {None} \cup {Some(p) : p \in Positions} :
                    position(map_state', outer_position) =
                        (IF last_set'.position # None
                         THEN last_set'.position[1] ELSE DefaultPosition)
            /\ \A window_inner_size \in Sizes :
                    inner_size(map_state', window_inner_size) =
                        (IF last_set'.size # None
                         THEN last_set'.size[1] ELSE DefaultSize)
        /\ (lastOp'.name = "set_position" /\ map_state.kind = "Unmapped")
                => map_state'.requested_size = map_state.requested_size
        /\ (lastOp'.name = "set_inner_size" /\ map_state.kind = "Unmapped")
                => map_state'.requested_position = map_state.requested_position
      ]_vars

\* C14: existing_size is changed by set_existing_size() alone, which stores
\* its argument: no show(), hide(), draw() or any other call changes it, so
\* existing_size() returns the argument of the latest set_existing_size(),
\* or the default when there was none.
C14_ExistingSizePersists ==
    [][ IF lastOp'.name = "set_existing_size"
        THEN existing_size' = lastOp'.size
        ELSE existing_size' = existing_size ]_vars

\* a hint set before show() is still there after show(), draw() and hide()
C14_Witness ==
    /\ lastOp.name = "hide"
    /\ lastOp.pre = "Mapped"
    /\ existing_size = [width |-> 80, height |-> 60]

\* the pixels of a byte buffer, n bytes each
PixelsOf(bytes, n) ==
    [i \in 1..(Len(bytes) \div n) |->
        [k \in 1..n |-> bytes[(i - 1) * n + k]]]

\* C15: set_icon turns an embedded image into straight 8-bit RGBA pixel by
\* pixel: an RGBA8Premultiplied pixel (c1,c2,c3,a) into (c1*a/255, c2*a/255,
\* c3*a/255, a) with truncating division, an RGB8 pixel (r,g,b) into
\* (r,g,b,255), an RGBA8 pixel into itself; every output byte is in 0..255.
C15_IconConversion ==
    (lastOp.name = "set_icon" /\ lastOp.icon.kind = "EmbeddedImage")
        => LET buffer == lastOp.icon.buffer
               out == PixelsOf(lastOp.rgba_pixels[1], 4)
               in == PixelsOf(buffer.bytes,
                              IF buffer.format = "RGB8" THEN 3 ELSE 4)
           IN /\ Len(lastOp.rgba_pixels[1]) = 4 * Len(in)
              /\ \A j \in DOMAIN lastOp.rgba_pixels[1] :
                    lastOp.rgba_pixels[1][j] \in 0..255
              /\ \A i \in DOMAIN in :
                    out[i] =
                        CASE buffer.format = "RGB8" ->
                                <<in[i][1], in[i][2], in[i][3], 255>>
                          [] buffer.format = "RGBA8" -> in[i]
                          [] buffer.format = "RGBA8Premultiplied" ->
                                <<(in[i][1] * in[i][4]) \div 255,
                                  (in[i][2] * in[i][4]) \div 255,
                                  (in[i][3] * in[i][4]) \div 255,
                                  in[i][4]>>

\* the premultiplied pixel (200,0,0,128) became (100,0,0,128) and was given
\* to the mapped window
C15_Witness ==
    /\ lastOp.name = "set_icon"
    /\ lastOp.icon.kind = "EmbeddedImage"
    /\ lastOp.icon.buffer.format = "RGBA8Premultiplied"
    /\ lastOp.icon.buffer.bytes = <<200, 0, 0, 128>>
    /\ lastOp.rgba_pixels = Some(<<100, 0, 0, 128>>)
    /\ Len(trace) = 1
    /\ trace[1].rgba = <<100, 0, 0, 128>>

\* C16: set_icon un-premultiplies a premultiplied pixel: each colour channel
\* of the output is channel * 255 / alpha of the input, and alpha is passed
\* through.
C16_IconUnpremultiplied ==
    (lastOp.name = "set_icon" /\ lastOp.icon.kind = "EmbeddedImage"
        /\ lastOp.icon.buffer.format = "RGBA8Premultiplied")
        => LET out == PixelsOf(lastOp.rgba_pixels[1], 4)
               in == PixelsOf(lastOp.icon.buffer.bytes, 4)
           IN \A i \in DOMAIN in :
                /\ out[i][4] = in[i][4]
                /\ in[i][4] > 0 =>
                        \A k \in 1..3 : out[i][k] = (in[i][k] * 255) \div in[i][4]

\* C17: hide() on a Mapped handle makes the context current, then invokes
\* the RenderingTeardown notification, then releases the canvas's GPU
\* resources, then drops the MappedWindow (unregistering the window id),
\* leaves the state Unmapped, and posts WindowHidden last.
C17_HideOrder ==
    (lastOp.name = "hide" /\ lastOp.pre = "Mapped")
        => /\ trace[1].e = "with_current_context_enter"
           /\ Precedes(trace, "notify", "canvas.release_graphics_resources")
           /\ Count(trace, "canvas.release_graphics_resources") = 1
           /\ Precedes(trace, "canvas.release_graphics_resources",
                       "unregister_window")
           /\ Count(trace, "unregister_window") = 1
           /\ Precedes(trace, "unregister_window", "send_event")
           /\ map_state.kind = "Unmapped"
           /\ trace[Len(trace)].e = "send_event"
           /\ trace[Len(trace)].event = "WindowHidden"

\* C18: draw() on a Mapped handle makes the context current, resizes the
\* surface, renders, swaps buffers and releases currency, in that order;
\* with a notifier registered it is notified BeforeRendering once during the
\* render call and AfterRendering once after it and before the swap, and
\* with none registered no callback is invoked.
C18_DrawOrder ==
    (lastOp.name = "draw" /\ lastOp.pre = "Mapped")
        => /\ Steps(trace) =
                IF rendering_notifier # None
                THEN <<"make_current", "ensure_resized", "render_enter",
                       "BeforeRendering", "render_exit", "AfterRendering",
                       "swap_buffers", "make_not_current">>
                ELSE <<"make_current", "ensure_resized", "render_enter",
                       "render_exit", "swap_buffers", "make_not_current">>
           /\ \A i \in Notified(trace) :
                trace[i].callback = rendering_notifier[1]

\* a draw() notified the registered callback before and after rendering
C18_Witness ==
    /\ lastOp.name = "draw"
    /\ lastOp.pre = "Mapped"
    /\ CountNotify(trace, "BeforeRendering") = 1
    /\ CountNotify(trace, "AfterRendering") = 1
    /\ rendering_notifier = Some(2)

\* C19: between calls the window-id registry holds an entry for the handle
\* exactly when the handle is Mapped, and the entry is the id of the native
\* window now mapped: show() adds it, hide() and drop remove it.
C19_RegistryIffMapped ==
    registry = IF map_state.kind = "Mapped"
               THEN {map_state.window.opengl_context.window.id}
               ELSE {}

\* show() mapped the native window with id 2 and registered it
C19_Witness ==
    /\ lastOp.name = "show"
    /\ lastOp.pre = "Unmapped"
    /\ map_state.kind = "Mapped"
    /\ map_state.window.opengl_context.window.id = 2
    /\ registry = {2}
    /\ Count(trace, "register_window") = 1

\* C20: hide() on a Mapped handle leaves no requested position and no
\* requested size, so position() and inner_size() return the zero default;
\* and a show() with no set_position()/set_inner_size() since the handle
\* became Unmapped gives the builder no position and no requested size.
C20_NoGeometryAcrossMapping ==
    [][ /\ (lastOp'.name = "hide" /\ map_state.kind = "Mapped")
            => /\ map_state' = Unmapped(None, None)
               /\ \A outer_position \in {None} \cup {Some(p) : p \in Positions} :
                    position(map_state', outer_position) = DefaultPosition
               /\ \A window_inner_size \in Sizes :
                    inner_size(map_state', window_inner_size) = DefaultSize
        /\ (lastOp'.name = "show" /\ map_state.kind = "Unmapped"
                /\ last_set = [position |-> None, size |-> None])
            => /\ BuilderOf(trace').position = None
               /\ \A z \in Sizes :
                    BuilderOf(trace').inner_size #
                        Some([unit |-> "Physical", width |-> z.width,
                              height |-> z.height]) ]_vars

\* a window that had been mapped was hidden and reports no position
C20_Witness ==
    /\ lastOp.name = "hide"
    /\ lastOp.pre = "Mapped"
    /\ map_state = Unmapped(None, None)
    /\ position(map_state, Some([x |-> 1, y |-> -1])) = DefaultPosition
    /\ inner_size(map_state, [width |-> 1, height |-> 1]) = DefaultSize

\* C21: with SLINT_FULLSCREEN unset, show() gives the builder the buffered
\* requested size when there is one, and then leaves the root item's
\* geometry alone; else, when both preferred layout sizes are above 0, the
\* preferred size, in physical pixels by the scale-factor override when one
\* exists and as a logical size otherwise, and writes it to the root item's
\* geometry; else no inner size, and the geometry is left alone.
C21_SizePrecedence ==
    (lastOp.name = "show_resolved" /\ ~lastOp.in.env.env_fullscreen)
        => LET requested_size == lastOp.in.requested_size
               s == lastOp.in.env.s
               runtime == lastOp.in.runtime_scale_factor
               env_scale == lastOp.in.env.env_scale
               \* the override in tenths, 0 when there is none
               f == IF runtime > 10 THEN runtime
                    ELSE IF env_scale = Some("1.5") THEN 15
                    ELSE IF env_scale = Some("0.5") THEN 5
                    ELSE 0
               out == lastOp.out
           IN /\ ~out.builder.fullscreen
              /\ IF requested_size # None
                 THEN /\ out.builder.inner_size =
                            Some([unit |-> "Physical",
                                  width |-> requested_size[1].width,
                                  height |-> requested_size[1].height])
                      /\ ~out.sets_geometry
                 ELSE IF s.width > 0 /\ s.height > 0
                 THEN /\ out.sets_geometry
                      /\ out.builder.inner_size =
                            IF f > 0
                            THEN Some([unit |-> "Physical",
                                       width |-> (s.width * f) \div 10,
                                       height |-> (s.height * f) \div 10])
                            ELSE Some([unit |-> "Logical", width |-> s.width,
                                       height |-> s.height])
                 ELSE /\ out.builder.inner_size = None
                      /\ ~out.sets_geometry

\* show() resolved the preferred size 20x20 under SLINT_SCALE_FACTOR=1.5
C21_Witness ==
    /\ lastOp.name = "show_resolved"
    /\ ~lastOp.in.env.env_fullscreen
    /\ lastOp.in.requested_size = None
    /\ lastOp.in.runtime_scale_factor = 10
    /\ lastOp.in.env.env_scale = Some("1.5")
    /\ lastOp.in.env.s = [width |-> 20, height |-> 20]
    /\ lastOp.out.sets_geometry
    /\ lastOp.out.builder.inner_size =
            Some([unit |-> "Physical", width |-> 30, height |-> 30])

\* the notifications of a trace, in order, by the state they announce
RECURSIVE Notifications(_)
Notifications(tr) ==
    IF tr = <<>> THEN <<>>
    ELSE (IF Head(tr).e = "notify" THEN <<Head(tr).state>> ELSE <<>>)
            \o Notifications(Tail(tr))

\* the recogniser of (RenderingSetup (BeforeRendering AfterRendering)*
\* RenderingTeardown)*: "out" outside a Setup..Teardown pair, "in" inside
\* one, "rendering" between a BeforeRendering and its AfterRendering
RECURSIVE Recognise(_, _)
Recognise(phase, notes) ==
    IF notes = <<>> THEN phase
    ELSE LET n == Head(notes)
         IN CASE phase = "out" /\ n = "RenderingSetup" ->
                    Recognise("in", Tail(notes))
              [] phase = "in" /\ n = "BeforeRendering" ->
                    Recognise("rendering", Tail(notes))
              [] phase = "rendering" /\ n = "AfterRendering" ->
                    Recognise("in", Tail(notes))
              [] phase = "in" /\ n = "RenderingTeardown" ->
                    Recognise("out", Tail(notes))
              [] OTHER -> "reject"

\* where in the pattern a notifier registered before the first show() is
PhaseOf(ms) == IF ms.kind = "Mapped" THEN "in" ELSE "out"

\* C22: a notifier that stays registered receives, over show(), hide(),
\* draw() and drop, notifications of the form (RenderingSetup
\* (BeforeRendering AfterRendering)* RenderingTeardown)*: each call continues
\* the pattern from where the map state stands (outside a pair when
\* Unmapped, inside one when Mapped) to where it stands afterwards, with one
\* RenderingSetup per Unmapped-to-Mapped transition and one RenderingTeardown
\* per Mapped-to-Unmapped transition or drop while Mapped.
C22_NotificationPattern ==
    [][ (rendering_notifier # None
            /\ (rendering_notifier' = rendering_notifier \/ lastOp'.name = "drop"))
        => /\ Recognise(PhaseOf(map_state), Notifications(trace')) =
                PhaseOf(map_state')
           /\ \A i \in Notified(trace') :
                trace'[i].callback = rendering_notifier[1]
           /\ CountNotify(trace', "RenderingSetup") =
                (IF map_state.kind = "Unmapped" /\ map_state'.kind = "Mapped"
                 THEN 1 ELSE 0)
           /\ CountNotify(trace', "RenderingTeardown") =
                (IF map_state.kind = "Mapped" /\ map_state'.kind # "Mapped"
                 THEN 1 ELSE 0) ]_vars

\* a registered notifier was told RenderingTeardown by a hide()
C22_Witness ==
    /\ lastOp.name = "hide"
    /\ lastOp.pre = "Mapped"
    /\ rendering_notifier = Some(1)
    /\ Notifications(trace) = <<"RenderingTeardown">>

\* the calls that write map_state, and the read-only accessors
MapStateCalls == {"hide", "show", "set_position", "set_inner_size"}
Accessors == {"position", "inner_size", "request_redraw", "constraints"}
DrawOrTeardown == {"BeforeRendering", "AfterRendering", "RenderingTeardown"}

\* C23: a call the notifier callback makes never changes the map state or
\* the notifier slot under the running operation: set_rendering_notifier()
\* in any phase, and hide(), show(), set_position() and set_inner_size()
\* during BeforeRendering, AfterRendering or RenderingTeardown, end in a
\* borrow conflict; position(), inner_size(), request_redraw() and
\* constraints() in those phases complete.
C23_ReentrantCallsConflict ==
    [][ lastOp'.name = "reentered"
        => /\ map_state' = map_state
           /\ rendering_notifier' = rendering_notifier
           /\ lastOp'.call.name = "set_rendering_notifier"
                => lastOp'.result = "panic"
           /\ (lastOp'.phase \in DrawOrTeardown
                    /\ lastOp'.call.name \in MapStateCalls)
                => lastOp'.result = "panic"
           /\ (lastOp'.phase \in DrawOrTeardown
                    /\ lastOp'.call.name \in Accessors)
                => lastOp'.result = "ok" ]_vars

\* C23, amended: a call the notifier callback makes never changes the
\* notifier slot, and during BeforeRendering, AfterRendering and
\* RenderingTeardown never the map state: set_rendering_notifier() in any
\* phase, and hide(), set_position() and set_inner_size() in those three
\* phases, end in a borrow conflict; show() in those phases finds the
\* handle Mapped and returns at once, completing without effect; the
\* read-only accessors complete.  During RenderingSetup the map state is not
\* borrowed and hide(), set_position() and set_inner_size() complete.
C23_ReentrantCallsAmended ==
    [][ lastOp'.name = "reentered"
        => /\ rendering_notifier' = rendering_notifier
           /\ lastOp'.call.name = "set_rendering_notifier"
                => lastOp'.result = "panic"
           /\ lastOp'.phase \in DrawOrTeardown
                => /\ map_state' = map_state
                   /\ lastOp'.call.name \in MapStateCalls \ {"show"}
                        => lastOp'.result = "panic"
                   /\ lastOp'.call.name \in Accessors \cup {"show"}
                        => lastOp'.result = "ok"
           /\ (lastOp'.phase = "RenderingSetup"
                    /\ lastOp'.call.name \in
                            {"hide", "set_position", "set_inner_size"})
                => /\ lastOp'.result = "ok"
                   /\ map_state' = MapStateAfterCall(lastOp'.call, map_state) ]_vars

\* a callback called hide() during RenderingTeardown and hit the conflict
C23_Witness ==
    /\ lastOp.name = "reentered"
    /\ lastOp.phase = "RenderingTeardown"
    /\ lastOp.call.name = "hide"
    /\ lastOp.result = "panic"
    /\ status = "panicked"
    /\ map_state.kind = "Mapped"

\* C24: the cached constraints live inside one mapping: constraints() is
\* the default pair whenever the handle is not Mapped, set_constraints()
\* while Unmapped changes nothing, a show() that maps the window starts at
\* the default pair, and while Mapped constraints() is the argument of the
\* latest set_constraints() of this mapping (no other call changes it).
C24_ConstraintsPerMapping ==
    [][ /\ map_state'.kind # "Mapped"
            => constraints(map_state') = DefaultConstraints
        /\ lastOp'.name = "set_constraints"
            => IF map_state.kind = "Mapped"
               THEN constraints(map_state') = lastOp'.constraints
               ELSE map_state' = map_state
        /\ (lastOp'.name = "show" /\ map_state.kind = "Unmapped")
            => constraints(map_state') = DefaultConstraints
        /\ (map_state.kind = "Mapped" /\ map_state'.kind = "Mapped"
                /\ lastOp'.name # "set_constraints")
            => constraints(map_state') = constraints(map_state) ]_vars

\* constraints were set on a mapped window and are read back
C24_Witness ==
    /\ lastOp.name = "set_constraints"
    /\ lastOp.pre = "Mapped"
    /\ lastOp.constraints = <<1, 2>>
    /\ constraints(map_state) = <<1, 2>>

====
